---- MODULE Spec2Model ----
(***************************************************************************)
(* Model of pages/4_Forecasting Models.py: one run of the Streamlit page   *)
(* script, from the sidebar inputs to the forecast table.  The script is   *)
(* sequential; the only concurrency is the Dask pool that evaluates the    *)
(* folds of the final cross-validation (parallel="dask").                  *)
(*                                                                         *)
(* Calls into yfinance, numpy, random, itertools, Prophet and PyCaret are  *)
(* modelled by the documented contract of the function that is called with *)
(* the arguments the script passes; what a call returns for data the model *)
(* does not represent (prices, fitted parameters, scores) is a             *)
(* nondeterministic choice.                                                *)
(***************************************************************************)
EXTENDS Integers, Sequences, FiniteSets, TLC

VARIABLES
    pc,                 \* position in the script
    start_date,         \* st.sidebar.date_input("Start date")   (day number)
    end_date,           \* st.sidebar.date_input("End date")     (day number)
    forecast_models,    \* "Prophet" | "AutoML"
    df,                 \* the data frame: [isNone, dates, cols]
    fetches,            \* number of load_data calls
    shown,              \* messages written to the page so far
    initial_days, period_days, horizon_days, future_period_days,
    param_grid,         \* number of candidate values of each parameter
    selected_params,    \* random.sample(all_params, ...)
    client,             \* "none" | "open" | "closed"
    mapes,              \* recorded scores, in sample order
    idx,                \* loop index of `for params in selected_params`
    tuned,              \* models tuned so far by the comprehension of line 80
    fits,               \* number of model fits started (Prophet.fit, compare/tune/blend)
    best_params,        \* selected_params[np.argmin(mapes)], <<>> before
    cutoffs,            \* fold cutoffs of the cross-validation in progress
    pending,            \* folds submitted to the pool that have not reported
    forecast,           \* dates of the forecast table, <<>> before
    horizon,            \* AutoML sidebar horizon
    setupOK,            \* outcome of exp.setup on df: "unknown" | "ok" | "fail"
    error,              \* exception raised: "none" | "ValueError" | "KeyError" | "TypeError"
    events              \* pipeline steps executed so far, in order

vars == << pc, start_date, end_date, forecast_models, df, fetches, shown,
           initial_days, period_days, horizon_days, future_period_days, param_grid,
           selected_params, client, mapes, idx, fits, best_params, cutoffs, pending,
           forecast, horizon, setupOK, error, events, tuned >>

(***************************************************************************)
(* Bounds of the model.                                                    *)
(***************************************************************************)
\* The script samples min(10, len(all_params)) combinations (line 133) of a
\* 4*5*4*2 grid; the model keeps the min() and scales both the sample size
\* and the grids so that len(all_params) falls on either side of it.
TrialBound == 3
\* exp.setup(df, fh=5, fold=5, ...) and n_select=3 (lines 75-76).
SetupFh == 5
SetupFold == 5
NSelect == 3

\* Grids tried: the number of candidate values of each of the four
\* parameters of param_grid (the script's own grid is <<4, 5, 4, 2>>).
GridChoices == { <<1, 1, 1, 1>>, <<2, 1, 1, 1>>, <<1, 3, 1, 1>>, <<2, 1, 1, 2>> }

\* Sidebar values tried (each within the range of its widget).
StartDates == {0, 70}
EndDates == {60}
InitialChoices == {30, 45}
PeriodChoices == {10}
HorizonChoices == {7}
FutureChoices == {1, 2}
AutoHorizonChoices == {1, 2}

(***************************************************************************)
(* Scores: a float64 is a finite number, +inf or NaN.                      *)
(***************************************************************************)
Fin(n) == [k |-> "fin", v |-> n]
Inf == [k |-> "inf", v |-> 0]
NaN == [k |-> "nan", v |-> 0]
Scores == {Fin(1), Fin(2), Inf, NaN}
IsNaN(a) == a.k = "nan"
IsFinite(a) == a.k = "fin"

\* IEEE-754 comparisons: every comparison with NaN is false.
FGe(a, b) ==
    /\ ~IsNaN(a) /\ ~IsNaN(b)
    /\ \/ a.k = "inf"
       \/ a.k = "fin" /\ b.k = "fin" /\ a.v >= b.v
FLe(a, b) == FGe(b, a)

(***************************************************************************)
(* Library functions the script calls, by their contract.                  *)
(***************************************************************************)
SetMax(S) == CHOOSE x \in S : \A y \in S : y <= x
SetMin(S) == CHOOSE x \in S : \A y \in S : x <= y

RECURSIVE SortedSeq(_)
SortedSeq(S) ==
    IF S = {} THEN << >>
    ELSE LET m == SetMin(S) IN << m >> \o SortedSeq(S \ {m})

Reverse(s) == [i \in 1..Len(s) |-> s[Len(s) + 1 - i]]

\* np.argmin over float64 (1-based here): the first NaN if there is one,
\* else the first occurrence of the minimum.  The scan keeps the running
\* minimum mp and moves to i when not (a[i] >= mp), stopping at a NaN.
RECURSIVE ArgMinScan(_, _, _)
ArgMinScan(a, i, best) ==
    IF i > Len(a) \/ IsNaN(a[best]) THEN best
    ELSE IF ~FGe(a[i], a[best]) THEN ArgMinScan(a, i + 1, i)
    ELSE ArgMinScan(a, i + 1, best)

ArgMin(a) == ArgMinScan(a, 2, 1)

\* itertools.product(*param_grid.values()): the p-th tuple (1-based) of the
\* Cartesian product in lexicographic order, the last parameter fastest.
\* A candidate value is named by its position in its list; the lists of
\* param_grid hold no value twice.
Combo(grid, p) ==
    LET q4 == p - 1
        q3 == q4 \div grid[4]
        q2 == q3 \div grid[3]
        q1 == q2 \div grid[2]
    IN  << (q1 % grid[1]) + 1, (q2 % grid[2]) + 1, (q3 % grid[3]) + 1, (q4 % grid[4]) + 1 >>

GridSize(grid) == grid[1] * grid[2] * grid[3] * grid[4]

\* all_params (line 131).
AllParams(grid) == [p \in 1..GridSize(grid) |-> Combo(grid, p)]

IntMin(a, b) == IF a <= b THEN a ELSE b

\* random.choices in place of random.sample: positions may repeat.
RandomChoices(population, k) ==
    { [i \in 1..k |-> population[f[i]]] : f \in [1..k -> 1..Len(population)] }

\* random.sample(population, k): k elements at k different positions of the
\* population, in any order.
RandomSample(population, k) ==
    { [i \in 1..k |-> population[f[i]]] :
        f \in { g \in [1..k -> 1..Len(population)] :
                  \A i, j \in 1..k : i # j => g[i] # g[j] } }

\* prophet.diagnostics.generate_cutoffs as cross_validation calls it: the
\* last cutoff is horizon before the last date, and cutoffs step back by
\* period while the last one made is at least initial after the first date;
\* a cutoff with no data in (cutoff, cutoff + horizon] moves back to horizon
\* before the closest earlier date.  The last one made is dropped.
RECURSIVE CutoffLoop(_, _, _, _, _)
CutoffLoop(dates, h, ini, p, result) ==
    LET cur == result[Len(result)]
        lo == SetMin(dates)
    IN  IF cur >= lo + ini
        THEN LET c1 == cur - p
                 hasData == \E d \in dates : d > c1 /\ d <= c1 + h
                 c2 == IF ~hasData /\ c1 > lo
                       THEN SetMax({d \in dates : d <= c1}) - h
                       ELSE c1
             IN  CutoffLoop(dates, h, ini, p, Append(result, c2))
        ELSE result

\* Cutoffs counted forward from `initial` after the first date instead of
\* backward from the last date.
GenerateCutoffsFromStart(dates, h, ini, p) ==
    LET lo == SetMin(dates)
        n == ((SetMax(dates) - h - lo - ini) \div p) + 1
    IN  IF lo + ini + h > SetMax(dates) THEN << >>
        ELSE [i \in 1..n |-> lo + ini + (i - 1) * p]

\* << >> stands for the ValueError ("Less data than horizon ...").
GenerateCutoffs(dates, h, ini, p) ==
    LET c0 == SetMax(dates) - h IN
    IF c0 < SetMin(dates) THEN << >>
    ELSE LET made == CutoffLoop(dates, h, ini, p, << c0 >>)
         IN  Reverse(SubSeq(made, 1, Len(made) - 1))

\* The future dates taken from the last date on, without dropping it.
MakeFutureDataframeFromLast(dates, periods) ==
    LET last == SetMax(dates)
    IN  SortedSeq(dates) \o [i \in 1..periods |-> last + i - 1]

\* Prophet.make_future_dataframe(periods) with its defaults (freq='D',
\* include_history=True): the history dates followed by the next `periods`
\* days after the last one.
MakeFutureDataframe(dates, periods) ==
    LET last == SetMax(dates)
    IN  SortedSeq(dates) \o [i \in 1..periods |-> last + i]

\* exp.predict_model(final_model, fh=horizon) after finalize_model: the
\* `horizon` days that follow the last date of the series.
PredictFinal(dates, fh) == [i \in 1..fh |-> SetMax(dates) + i]

\* df.asfreq(freq='D').ffill() (line 69): every day from the first to the last.
AsFreqDaily(dates) == IF dates = {} THEN {} ELSE SetMin(dates)..SetMax(dates)

(***************************************************************************)
(* The script.                                                             *)
(***************************************************************************)
NoFrame == [isNone |-> TRUE, dates |-> {}, cols |-> {}]
Frame(dates, cols) == [isNone |-> FALSE, dates |-> dates, cols |-> cols]

\* Series the provider may return for [start, end): every day, a range that
\* ends early, a single row, and a range with a long gap in it.
SeriesChoices(s, e) ==
    { s..(e - 1), s..(s + 36), s..(s + 3), {s}, (s..(s + 20)) \cup ((s + 45)..(e - 1)) }

Ev(op, on) == [op |-> op, on |-> on]

sidebarV == << start_date, end_date, forecast_models >>
widgetV == << initial_days, period_days, horizon_days, future_period_days, horizon >>
searchV == << param_grid, selected_params, mapes, idx, best_params >>
cvV == << cutoffs, pending >>

Init ==
    /\ pc = "dates"
    /\ start_date \in StartDates
    /\ end_date \in EndDates
    /\ forecast_models \in {"Prophet", "AutoML"}
    /\ df = NoFrame
    /\ fetches = 0
    /\ shown = {}
    /\ initial_days = 0 /\ period_days = 0 /\ horizon_days = 0 /\ future_period_days = 0
    /\ param_grid = << >>
    /\ selected_params = << >>
    /\ client = "none"
    /\ mapes = << >>
    /\ idx = 0
    /\ tuned = 0
    /\ fits = 0
    /\ best_params = << >>
    /\ cutoffs = << >>
    /\ pending = {}
    /\ forecast = << >>
    /\ horizon = 0
    /\ setupOK = "unknown"
    /\ error = "none"
    /\ events = << >>

\* Where an exception raised inside the try block (lines 106-217) goes: the
\* handler of line 218 takes ValueError and KeyError, anything else leaves
\* the script.
RaiseTo(e) == IF e \in {"ValueError", "KeyError"} THEN "handler" ELSE "crashed"

\* The messages of lines 54, 62, 111 and 219.
EndDateError == "The end date must fall after the start date"
LoadError == "Error loading data"
NoDataWarning == "No data available for the selected stock and date range"
SelectCompany == "Please select a Company Name"

\* Lines 53-54: the error is shown and the script goes on.
CheckDates ==
    /\ pc = "dates"
    /\ shown' = IF start_date > end_date THEN shown \cup {EndDateError} ELSE shown
    /\ pc' = "load"
    /\ UNCHANGED << tuned, sidebarV, widgetV, searchV, cvV, df, fetches, client, fits,
                    forecast, setupOK, error, events >>

\* Lines 56-63 and 105: yf.download raises (None is returned), or returns a
\* frame indexed by Date, empty when the range holds no trading day.
LoadOutcomes ==
    {NoFrame, Frame({}, {"Adj Close"})} \cup
    IF start_date < end_date
    THEN { Frame(ds, {c}) : ds \in SeriesChoices(start_date, end_date),
                            c \in {"Adj Close", "Close"} }
    ELSE {}

LoadData ==
    /\ pc = "load"
    /\ fetches' = fetches + 1
    /\ df' \in LoadOutcomes
    /\ shown' = IF df'.isNone THEN shown \cup {LoadError} ELSE shown
    /\ pc' = "select"
    /\ UNCHANGED << tuned, sidebarV, widgetV, searchV, cvV, client, fits,
                    forecast, setupOK, error, events >>

\* Lines 107-111.
SelectColumns ==
    /\ pc = "select"
    /\ IF ~df.isNone /\ df.dates # {}
       THEN IF "Adj Close" \in df.cols
            THEN /\ df' = [df EXCEPT !.cols = {"Date", "Adj Close"}]
                 /\ pc' = "dispatch"
                 /\ UNCHANGED << shown, error >>
            ELSE /\ df' = [df EXCEPT !.cols = df.cols \cup {"Date"}]
                 /\ error' = "KeyError"
                 /\ pc' = RaiseTo("KeyError")
                 /\ UNCHANGED shown
       ELSE /\ shown' = shown \cup {NoDataWarning}
            /\ pc' = "dispatch"
            /\ UNCHANGED << df, error >>
    /\ UNCHANGED << tuned, sidebarV, widgetV, searchV, cvV, fetches, client, fits,
                    forecast, setupOK, events >>

\* Lines 113 and 210.
Dispatch ==
    /\ pc = "dispatch"
    /\ pc' = IF forecast_models = "Prophet" THEN "p_rename" ELSE "a_check"
    /\ UNCHANGED << tuned, sidebarV, widgetV, searchV, cvV, df, fetches, shown, client,
                    fits, forecast, setupOK, error, events >>

\* Lines 218-219.
Handler ==
    /\ pc = "handler"
    /\ shown' = shown \cup {SelectCompany}
    /\ pc' = "done"
    /\ UNCHANGED << tuned, sidebarV, widgetV, searchV, cvV, df, fetches, client,
                    fits, forecast, setupOK, error, events >>

(***************************************************************************)
(* The Prophet branch, lines 113-208.                                      *)
(***************************************************************************)
RenameCol(c) == IF c = "Date" THEN "ds" ELSE IF c = "Adj Close" THEN "y" ELSE c

\* Lines 114-115.
PRename ==
    /\ pc = "p_rename"
    /\ df' = IF df.isNone THEN df ELSE [df EXCEPT !.cols = {RenameCol(c) : c \in df.cols}]
    /\ pc' = "p_inputs"
    /\ UNCHANGED << tuned, sidebarV, widgetV, searchV, cvV, fetches, shown, client,
                    fits, forecast, setupOK, error, events >>

\* Lines 117-120.
PInputs ==
    /\ pc = "p_inputs"
    /\ initial_days' \in InitialChoices
    /\ period_days' \in PeriodChoices
    /\ horizon_days' \in HorizonChoices
    /\ future_period_days' \in FutureChoices
    /\ pc' = "p_sample"
    /\ UNCHANGED << tuned, sidebarV, searchV, cvV, horizon, df, fetches, shown, client,
                    fits, forecast, setupOK, error, events >>

\* selected_params (line 133).
SelectedParams(grid) == RandomSample(AllParams(grid), IntMin(TrialBound, GridSize(grid)))

\* Lines 123-133.
PSample ==
    /\ pc = "p_sample"
    /\ \E g \in GridChoices :
          /\ param_grid' = g
          /\ selected_params' \in SelectedParams(g)
    /\ pc' = "p_client"
    /\ UNCHANGED << tuned, sidebarV, widgetV, cvV, mapes, idx, best_params, df, fetches,
                    shown, client, fits, forecast, setupOK, error, events >>

\* Line 136.
PClient ==
    /\ pc = "p_client"
    /\ client' = "open"
    /\ pc' = "p_loop"
    /\ UNCHANGED << tuned, sidebarV, widgetV, searchV, cvV, df, fetches, shown,
                    fits, forecast, setupOK, error, events >>

\* Prophet.fit(df): TypeError on None ('ds' not in None), ValueError without
\* the columns ds and y or with fewer than two rows.
FitError(d) ==
    IF d.isNone THEN "TypeError"
    ELSE IF ~({"ds", "y"} \subseteq d.cols) THEN "ValueError"
    ELSE IF Cardinality(d.dates) < 2 THEN "ValueError"
    ELSE "none"

\* Line 142, one iteration of the loop of line 140.
PFit ==
    /\ pc = "p_loop"
    /\ idx < Len(selected_params)
    /\ fits' = fits + 1
    /\ events' = Append(events, Ev("search_fit", "candidate"))
    /\ error' = FitError(df)
    /\ pc' = IF FitError(df) = "none" THEN "p_cv" ELSE RaiseTo(FitError(df))
    /\ UNCHANGED << tuned, sidebarV, widgetV, searchV, cvV, df, fetches, shown, client,
                    forecast, setupOK >>

\* Line 144: the folds are evaluated one after the other inside the call.
PCrossValidate ==
    /\ pc = "p_cv"
    /\ LET cuts == GenerateCutoffs(df.dates, horizon_days, initial_days, period_days)
       IN  IF cuts = << >>
           THEN /\ error' = "ValueError"
                /\ pc' = RaiseTo("ValueError")
                /\ UNCHANGED << cutoffs, events >>
           ELSE /\ cutoffs' = cuts
                /\ events' = Append(events, Ev("search_cv", "candidate"))
                /\ pc' = "p_score"
                /\ UNCHANGED error
    /\ UNCHANGED << tuned, sidebarV, widgetV, searchV, pending, df, fetches, shown,
                    client, fits, forecast, setupOK >>

\* Lines 146-148.
PScore ==
    /\ pc = "p_score"
    /\ \E s \in Scores : mapes' = Append(mapes, s)
    /\ idx' = idx + 1
    /\ pc' = "p_loop"
    /\ UNCHANGED << tuned, sidebarV, widgetV, cvV, param_grid, selected_params, best_params,
                    df, fetches, shown, client, fits, forecast, setupOK, error,
                    events >>

\* best_params (line 155).
BestParams(params, scores) == params[ArgMin(scores)]

\* Lines 150-155, when the loop is over.
PBest ==
    /\ pc = "p_loop"
    /\ idx = Len(selected_params)
    /\ best_params' = BestParams(selected_params, mapes)
    /\ events' = Append(events, Ev("select", "candidate"))
    /\ pc' = "p_final_fit"
    /\ UNCHANGED << tuned, sidebarV, widgetV, cvV, param_grid, selected_params, mapes, idx,
                    df, fetches, shown, client, fits, forecast, setupOK, error >>

\* Lines 157-164: the model with the best parameters is fitted on all of df.
PFinalFit ==
    /\ pc = "p_final_fit"
    /\ fits' = fits + 1
    /\ events' = Append(events, Ev("final_fit", "final"))
    /\ error' = FitError(df)
    /\ pc' = IF FitError(df) = "none" THEN "p_final_cv" ELSE RaiseTo(FitError(df))
    /\ UNCHANGED << tuned, sidebarV, widgetV, searchV, cvV, df, fetches, shown, client,
                    forecast, setupOK >>

\* Lines 167-169: with parallel="dask" one task per fold is submitted to the
\* client, and the call gathers them.
PFinalCV ==
    /\ pc = "p_final_cv"
    /\ LET cuts == GenerateCutoffs(df.dates, horizon_days, initial_days, period_days)
       IN  IF cuts = << >>
           THEN /\ error' = "ValueError"
                /\ pc' = RaiseTo("ValueError")
                /\ UNCHANGED << cutoffs, pending, events >>
           ELSE /\ cutoffs' = cuts
                /\ pending' = 1..Len(cuts)
                /\ events' = Append(events, Ev("final_cv", "final"))
                /\ pc' = "p_gather"
                /\ UNCHANGED error
    /\ UNCHANGED << tuned, sidebarV, widgetV, searchV, df, fetches, shown,
                    client, fits, forecast, setupOK >>

\* A worker of the pool finishes a fold.
PFoldReport ==
    /\ pc = "p_gather"
    /\ \E f \in pending : pending' = pending \ {f}
    /\ UNCHANGED << tuned, pc, sidebarV, widgetV, searchV, cutoffs, df, fetches, shown,
                    client, fits, forecast, setupOK, error, events >>

\* pool.gather returns when every fold has reported; lines 171-172.
PGather ==
    /\ pc = "p_gather"
    /\ pending = {}
    /\ pc' = "p_predict"
    /\ UNCHANGED << tuned, sidebarV, widgetV, searchV, cvV, df, fetches, shown, client,
                    fits, forecast, setupOK, error, events >>

\* Lines 175-179.
PPredict ==
    /\ pc = "p_predict"
    /\ forecast' = MakeFutureDataframe(df.dates, future_period_days)
    /\ events' = Append(events, Ev("predict", "final"))
    /\ pc' = "p_close"
    /\ UNCHANGED << tuned, sidebarV, widgetV, searchV, cvV, df, fetches, shown, client,
                    fits, setupOK, error >>

\* Lines 180-208: the charts, then client.close().
PClose ==
    /\ pc = "p_close"
    /\ client' = "closed"
    /\ pc' = "done"
    /\ UNCHANGED << tuned, sidebarV, widgetV, searchV, cvV, df, fetches, shown,
                    fits, forecast, setupOK, error, events >>

(***************************************************************************)
(* The AutoML branch, lines 210-217 with the functions of lines 64-101.    *)
(***************************************************************************)
\* Line 211: with no frame the branch does nothing.
ACheck ==
    /\ pc = "a_check"
    /\ pc' = IF df.isNone THEN "done" ELSE "a_preprocess"
    /\ UNCHANGED << tuned, sidebarV, widgetV, searchV, cvV, df, fetches, shown, client,
                    fits, forecast, setupOK, error, events >>

\* preprocess_data, lines 64-70 and 212: df['Date'] is a KeyError on the
\* frame that never had its index reset.
APreprocess ==
    /\ pc = "a_preprocess"
    /\ IF "Date" \in df.cols
       THEN /\ df' = [df EXCEPT !.dates = AsFreqDaily(df.dates), !.cols = df.cols \ {"Date"}]
            /\ pc' = "a_setup"
            /\ UNCHANGED error
       ELSE /\ error' = "KeyError"
            /\ pc' = RaiseTo("KeyError")
            /\ UNCHANGED df
    /\ UNCHANGED << tuned, sidebarV, widgetV, searchV, cvV, fetches, shown, client,
                    fits, forecast, setupOK, events >>

\* exp.setup(df, fh=5, fold=5): it cannot hold out fh points of a series no
\* longer than fh, and it can of one longer than fh * (fold + 1); in between
\* the outcome is PyCaret's.
SetupOutcomes(dates) ==
    IF Cardinality(dates) <= SetupFh THEN {"fail"}
    ELSE IF Cardinality(dates) > SetupFh * (SetupFold + 1) THEN {"ok"}
    ELSE {"ok", "fail"}

\* Lines 74-75.
ASetup ==
    /\ pc = "a_setup"
    /\ setupOK' \in SetupOutcomes(df.dates)
    /\ error' = IF setupOK' = "ok" THEN error ELSE "ValueError"
    /\ pc' = IF setupOK' = "ok" THEN "a_compare" ELSE RaiseTo("ValueError")
    /\ UNCHANGED << tuned, sidebarV, widgetV, searchV, cvV, df, fetches, shown, client,
                    fits, forecast, events >>

\* Lines 76-78: the panel is cross-validated and the best n_select kept.
ACompare ==
    /\ pc = "a_compare"
    /\ fits' = fits + 1
    /\ events' = Append(events, Ev("compare", "candidate"))
    /\ pc' = "a_tune"
    /\ UNCHANGED << tuned, sidebarV, widgetV, searchV, cvV, df, fetches, shown, client,
                    forecast, setupOK, error >>

\* Line 80, one exp.tune_model(model) of the comprehension.
ATune ==
    /\ pc = "a_tune"
    /\ tuned < NSelect
    /\ tuned' = tuned + 1
    /\ fits' = fits + 1
    /\ events' = Append(events, Ev("tune", "candidate"))
    /\ UNCHANGED << pc, sidebarV, widgetV, searchV, cvV, df, fetches, shown,
                    client, forecast, setupOK, error >>

\* Lines 81-86.
ABlend ==
    /\ pc = "a_tune"
    /\ tuned = NSelect
    /\ fits' = fits + 1
    /\ events' = Append(events, Ev("blend", "blended"))
    /\ pc' = "a_horizon"
    /\ UNCHANGED << sidebarV, widgetV, searchV, cvV, tuned, df, fetches, shown,
                    client, forecast, setupOK, error >>

\* Line 214.
AHorizon ==
    /\ pc = "a_horizon"
    /\ horizon' \in AutoHorizonChoices
    /\ pc' = "a_predict_blended"
    /\ UNCHANGED << sidebarV, searchV, cvV, tuned, initial_days, period_days, horizon_days,
                    future_period_days, df, fetches, shown, client, fits,
                    forecast, setupOK, error, events >>

\* create_forecast, lines 89-91: a second setup on the same df, then a
\* prediction of the blended model as it is.
APredictBlended ==
    /\ pc = "a_predict_blended"
    /\ events' = Append(events, Ev("predict", "blended"))
    /\ pc' = "a_finalize"
    /\ UNCHANGED << sidebarV, widgetV, searchV, cvV, tuned, df, fetches, shown,
                    client, fits, forecast, setupOK, error >>

\* Line 92: the blended model is refitted on the whole series.
AFinalize ==
    /\ pc = "a_finalize"
    /\ fits' = fits + 1
    /\ events' = Append(events, Ev("finalize", "final"))
    /\ pc' = "a_predict_final"
    /\ UNCHANGED << sidebarV, widgetV, searchV, cvV, tuned, df, fetches, shown,
                    client, forecast, setupOK, error >>

\* Lines 93-96 and 216.
APredictFinal ==
    /\ pc = "a_predict_final"
    /\ forecast' = PredictFinal(df.dates, horizon)
    /\ events' = Append(events, Ev("predict", "final"))
    /\ pc' = "a_plot"
    /\ UNCHANGED << sidebarV, widgetV, searchV, cvV, tuned, df, fetches, shown,
                    client, fits, setupOK, error >>

\* plot_forecast(blended_model), lines 98-101 and 217: the forecast chart of
\* the blended model, not of the finalized one.
APlot ==
    /\ pc = "a_plot"
    /\ events' = Append(events, Ev("plot", "blended"))
    /\ pc' = "done"
    /\ UNCHANGED << sidebarV, widgetV, searchV, cvV, tuned, df, fetches, shown,
                    client, fits, forecast, setupOK, error >>

Next ==
    \/ CheckDates \/ LoadData \/ SelectColumns \/ Dispatch \/ Handler
    \/ PRename \/ PInputs \/ PSample \/ PClient \/ PFit \/ PCrossValidate \/ PScore
    \/ PBest \/ PFinalFit \/ PFinalCV \/ PFoldReport \/ PGather \/ PPredict \/ PClose
    \/ ACheck \/ APreprocess \/ ASetup \/ ACompare \/ ATune \/ ABlend \/ AHorizon
    \/ APredictBlended \/ AFinalize \/ APredictFinal \/ APlot

Spec == Init /\ [][Next]_vars

(***************************************************************************)
(* The cross-validation call of line 144 on its own: a fitted model, and   *)
(* every series and every (initial, period, horizon) within the bounds,    *)
(* with the 60-day series and 30/10/7 added.                               *)
(***************************************************************************)
MaxLen == 12
MaxDur == 4

\* Daily series of 1..MaxLen days from day 0, whole or with one run of
\* days missing inside, and the 60-day series.
CVSeries ==
    { 0..(n - 1) : n \in 1..MaxLen }
    \cup { (0..(n - 1)) \ (a..b) : n \in 3..MaxLen, a \in 1..(MaxLen - 2), b \in 1..(MaxLen - 2) }
    \cup { 0..59 }

CVDurations ==
    ((1..MaxDur) \X (1..MaxDur) \X (1..MaxDur)) \cup { << 30, 10, 7 >> }

CVInit ==
    /\ pc = "p_cv"
    /\ start_date = 0
    /\ end_date = 60
    /\ forecast_models = "Prophet"
    /\ \E ds \in CVSeries : df = Frame(ds, {"ds", "y"})
    /\ fetches = 1
    /\ shown = {}
    /\ \E d \in CVDurations :
          /\ initial_days = d[1]
          /\ period_days = d[2]
          /\ horizon_days = d[3]
    /\ future_period_days = 1
    /\ param_grid = << 1, 1, 1, 1 >>
    /\ selected_params = << << 1, 1, 1, 1 >> >>
    /\ client = "open"
    /\ mapes = << >>
    /\ idx = 0
    /\ tuned = 0
    /\ fits = 1
    /\ best_params = << >>
    /\ cutoffs = << >>
    /\ pending = {}
    /\ forecast = << >>
    /\ horizon = 0
    /\ setupOK = "unknown"
    /\ error = "none"
    /\ events = << Ev("search_fit", "candidate") >>

SpecCV == CVInit /\ [][PCrossValidate]_vars

(***************************************************************************)
(* Properties.                                                             *)
(***************************************************************************)
FirstDate == SetMin(df.dates)
LastDate == SetMax(df.dates)
\* One row per day from the first date to the last.
GapFree == df.dates = FirstDate..LastDate
SeriesLength == LastDate - FirstDate + 1
CVReturned == pc = "p_score"
CVRaised == pc = "handler" /\ error = "ValueError"
StepsByPeriod == \A i \in 1..(Len(cutoffs) - 1) : cutoffs[i + 1] = cutoffs[i] + period_days
SixtyDayExample ==
    df.dates = 0..59 /\ initial_days = 30 /\ period_days = 10 /\ horizon_days = 7

\* C4 as stated: with initial + horizon <= series length there is at least
\* one fold, the fold count is floor((length - initial - horizon) / period)
\* + 1, the first test window starts right after `initial` days and the
\* later ones `period` days apart, inside the series; on the 60-day series
\* with 30/10/7 the origins are 30, 40, 50 (windows ending at 37, 47, 57).
C4_AsStated ==
    (pc # "p_cv" /\ GapFree /\ initial_days + horizon_days <= SeriesLength) =>
        /\ CVReturned
        /\ Len(cutoffs) = ((SeriesLength - initial_days - horizon_days) \div period_days) + 1
        /\ cutoffs[1] = FirstDate + initial_days
        /\ StepsByPeriod
        /\ \A i \in 1..Len(cutoffs) : cutoffs[i] + horizon_days <= LastDate + 1
        /\ (SixtyDayExample => cutoffs = << 30, 40, 50 >>)

\* C4 (amended): on a gap-free daily series whose last date is `span` =
\* length - 1 days after the first, the call returns folds exactly when
\* initial + horizon <= span, and then the fold count is
\* floor((span - initial - horizon) / period) + 1, the last test window ends
\* on the last date, the cutoffs are `period` days apart and the first one
\* is the earliest such day at least `initial` days after the first date;
\* otherwise the call raises ValueError.  On the 60-day series with 30/10/7
\* the cutoffs are 32, 42, 52 (windows ending at 39, 49, 59).
C4_FoldsAnchoredAtEnd ==
    (pc # "p_cv" /\ GapFree) =>
        IF initial_days + horizon_days <= SeriesLength - 1
        THEN /\ CVReturned
             /\ Len(cutoffs) =
                   ((SeriesLength - 1 - initial_days - horizon_days) \div period_days) + 1
             /\ cutoffs[Len(cutoffs)] + horizon_days = LastDate
             /\ StepsByPeriod
             /\ cutoffs[1] >= FirstDate + initial_days
             /\ cutoffs[1] - period_days < FirstDate + initial_days
             /\ (SixtyDayExample => cutoffs = << 32, 42, 52 >>)
        ELSE CVRaised /\ cutoffs = << >>

C4_Witness ==
    /\ CVReturned
    /\ SixtyDayExample
    /\ Len(cutoffs) = 3

HasEvent(op) == \E i \in 1..Len(events) : events[i].op = op
RunOver == pc \in {"done", "crashed"}
\* The loop of line 140 has recorded a score for every sampled combination.
SearchOver == selected_params # << >> /\ Len(mapes) = Len(selected_params)
Selected == best_params # << >>
\* A message that says more than the fixed texts of lines 54, 62, 111, 219.
DescriptiveErrorShown ==
    shown \ {EndDateError, LoadError, NoDataWarning, SelectCompany} # {}

\* C1 as stated: once the search loop is over, the selected combination has
\* a score <= the score of every other sampled combination, and no earlier
\* sampled combination has that same minimum score.
C1_AsStated ==
    Selected =>
        \E i \in 1..Len(selected_params) :
            /\ selected_params[i] = best_params
            /\ \A j \in 1..Len(mapes) : j # i => FLe(mapes[i], mapes[j])
            /\ \A j \in 1..(i - 1) : ~FLe(mapes[j], mapes[i])

\* The same statement for searches that recorded no NaN.
MinErrorWithoutNaN ==
    (Selected /\ \A j \in 1..Len(mapes) : ~IsNaN(mapes[j])) => C1_AsStated

\* Every combination of one candidate value per parameter.
CartesianProduct(grid) ==
    { << a, b, c, d >> : a \in 1..grid[1], b \in 1..grid[2], c \in 1..grid[3], d \in 1..grid[4] }

\* C2: the sample holds min(trial bound, size of the Cartesian product)
\* combinations, each one a member of the Cartesian product of the grid, no
\* two the same; a score is recorded per iteration, and when the loop is
\* over there is exactly one score per sampled combination.
C2_SampleDistinctAndScored ==
    selected_params # << >> =>
        /\ Len(selected_params) = IntMin(TrialBound, Cardinality(CartesianProduct(param_grid)))
        /\ \A i \in 1..Len(selected_params) : selected_params[i] \in CartesianProduct(param_grid)
        /\ \A i, j \in 1..Len(selected_params) :
              i # j => selected_params[i] # selected_params[j]
        /\ Len(mapes) = idx
        /\ idx <= Len(selected_params)
        /\ (Selected => Len(mapes) = Len(selected_params))

C2_Witness ==
    /\ Selected
    /\ Cardinality(CartesianProduct(param_grid)) > TrialBound
    /\ Len(mapes) = TrialBound

StrictlyIncreasing(s) == \A i \in 1..(Len(s) - 1) : s[i] < s[i + 1]
RequestedHorizon == IF forecast_models = "Prophet" THEN future_period_days ELSE horizon

\* C3 as stated: the forecast has as many rows as the requested horizon, its
\* dates are strictly increasing and the first is the day after the last
\* observed date.
C3_AsStated ==
    forecast # << >> =>
        /\ Len(forecast) = RequestedHorizon
        /\ StrictlyIncreasing(forecast)
        /\ forecast[1] = LastDate + 1

\* C3 (amended): the ensemble forecast is as stated; the seasonal forecast
\* holds the observed dates followed by future_period_days further dates, it
\* is strictly increasing, and the first date after the observed ones is the
\* day after the last observed date.
C3_ForecastDates ==
    forecast # << >> =>
        /\ StrictlyIncreasing(forecast)
        /\ IF forecast_models = "Prophet"
           THEN LET n == Cardinality(df.dates) IN
                /\ Len(forecast) = n + future_period_days
                /\ { forecast[i] : i \in 1..n } = df.dates
                /\ forecast[n + 1] = LastDate + 1
           ELSE /\ Len(forecast) = horizon
                /\ forecast[1] = LastDate + 1

C3_Witness ==
    /\ forecast_models = "Prophet"
    /\ forecast # << >>
    /\ future_period_days > 1
    /\ ~GapFree

\* The configured initial/period/horizon leave no fold on the loaded series
\* (a series of at least two rows, which Prophet accepts for a fit).
TooShortForOneFold ==
    /\ initial_days > 0
    /\ ~df.isNone /\ Cardinality(df.dates) >= 2
    /\ GenerateCutoffs(df.dates, horizon_days, initial_days, period_days) = << >>

\* C5 as stated: a series too short for one fold is found out before any
\* fit or cross-validation step, and the run ends with a descriptive error.
C5_AsStated ==
    TooShortForOneFold =>
        /\ fits = 0
        /\ events = << >>
        /\ (RunOver => DescriptiveErrorShown)

\* C6 as stated: with the start date after the end date nothing is fetched,
\* fitted, cross-validated or forecast.
C6_AsStated ==
    start_date > end_date =>
        /\ fetches = 0
        /\ fits = 0
        /\ events = << >>
        /\ client = "none"
        /\ forecast = << >>

DataUnavailable == pc \notin {"dates", "load"} /\ (df.isNone \/ df.dates = {})

\* C7 as stated: when load_data returned None or an empty frame, under
\* either strategy the user is told, no worker pool is created, no fit is
\* attempted and no forecast is produced.
C7_AsStated ==
    DataUnavailable =>
        /\ client = "none"
        /\ fits = 0
        /\ forecast = << >>
        /\ (pc # "select" => (LoadError \in shown \/ NoDataWarning \in shown))

NoFiniteScore == \A i \in 1..Len(mapes) : ~IsFinite(mapes[i])

\* C8 as stated: a search that recorded no finite score fits no final model
\* and attempts no forecast, and the failure is shown.
C8_AsStated ==
    (SearchOver /\ NoFiniteScore) =>
        /\ ~HasEvent("final_fit")
        /\ ~HasEvent("predict")
        /\ forecast = << >>
        /\ (RunOver => DescriptiveErrorShown)

IsSearch(e) == e.op \in {"search_fit", "search_cv", "compare"}
IsTune(e) == e.op \in {"select", "tune", "blend"}
IsFinalize(e) == e.op \in {"final_fit", "finalize"}
IsPredict(e) == e.op = "predict"

\* C9 as stated: no search or compare step after tuning has begun, no
\* tuning step after the refit on the whole series, and every prediction is
\* made with the finalized model after that refit.
C9_AsStated ==
    /\ \A i, j \in 1..Len(events) : (i < j /\ IsTune(events[i])) => ~IsSearch(events[j])
    /\ \A i, j \in 1..Len(events) : (i < j /\ IsFinalize(events[i])) => ~IsTune(events[j])
    /\ \A j \in 1..Len(events) :
          IsPredict(events[j]) =>
              /\ events[j].on = "final"
              /\ \E i \in 1..(j - 1) : IsFinalize(events[i])

\* C10 as stated: a run that created the worker pool has closed it when it
\* ends, however it ends, and the pool is closed only when every fold
\* scheduled on it has reported.
C10_AsStated ==
    /\ (RunOver /\ client # "none") => client = "closed"
    /\ client = "closed" => (HasEvent("final_cv") /\ pending = {})

\* The second half of C10 alone.
ClosedOnlyAfterAllFoldsReported ==
    client = "closed" => (HasEvent("final_cv") /\ pending = {})

====
